---- MODULE Spec2Model ----
(***************************************************************************)
(* Model of the interview integrity monitor (monitor/views.py,            *)
(* monitor/models.py): the InterviewSession and ViolationLog tables, and   *)
(* the request handlers process_frame, send_audio_activity,                *)
(* log_tab_switch and end_interview, each split at its database reads and  *)
(* writes and at its reads of the clock, which is where concurrent         *)
(* requests of the Django workers interleave.                              *)
(*                                                                         *)
(* Time is counted in ticks, tps of them in a second; the code's           *)
(* total_seconds() comparisons are made on ticks.                          *)
(***************************************************************************)
EXTENDS Integers, Sequences, FiniteSets

\* ---------------------------------------------------------------- bounds
\* resolution of the clock: ticks in a second
TicksPerSecond == 1
\* last clock value of the concurrent specification
MaxTime == 3
\* last clock value of the sequential specification
MaxTimeSeq == 6
\* last clock value of the audio specification
MaxTimeAudio == 12
\* last clock value of the scenario specification
MaxTimeScenario == 20
\* most failed writes of a row in the specification with failures
MaxFailures == 2
\* most rows of ViolationLog
MaxLog == 3
\* most rows of ViolationLog in the concurrent specification
MaxLogConc == 2
\* concurrent requests
NumWorkers == 2
\* most rows of ViolationLog in the scoring specification
MaxScoreLog == 11

\* ------------------------------------------------------------- constants
FACE_ABSENCE_THRESHOLD_SECONDS == 2
SILENCE_THRESHOLD_SECONDS == 5
FACE_DEBOUNCE_SECONDS == 2
SILENCE_DEBOUNCE_SECONDS == 5
INITIAL_SCORE == 100
GREEN_ABOVE == 85
YELLOW_ABOVE == 50

Workers == 1 .. NumWorkers
\* the session under observation, created by start_interview at time 0
TheSession == 1
\* an id start_interview never handed out
UnknownId == TheSession + 1
RequestIds == {TheSession, UnknownId}

ViolationTypes ==
    {"FACE_MISSING", "MULTIPLE_FACES", "FACE_ORIENTATION", "AUDIO_SILENCE", "TAB_SWITCH"}
\* a violation_type that VIOLATION_PENALTIES does not list
UnknownType == "UNKNOWN_KIND"
FrameStatuses == {"no_face", "multiple_faces", "ok"}
EventTypes == {"blur", "hidden", "focus", "visible"}

VARIABLES
    tps,          \* ticks in a second: the resolution of this run's clock
    clock,        \* timezone.now(), in ticks
    session_row,  \* the InterviewSession row of TheSession
    violations,   \* the ViolationLog table, in insertion order
    req,          \* per worker: the request it is serving and its locals
    response,     \* the response sent last
    finalizing,   \* history: end_interview has looked the session up as active
    multiples,    \* history: frames of an active session analysed as multiple_faces
    script        \* history: the instants of the frames the scenario has sent

vars ==
    <<tps, clock, session_row, violations, req, response, finalizing, multiples, script>>

\* ----------------------------------------------------------------- rows
\* end_time = -1 models NULL
NewSession(id, t) ==
    [id |-> id, is_active |-> TRUE, end_time |-> -1,
     last_face_seen |-> t, last_audio_activity |-> t,
     final_score |-> INITIAL_SCORE, violation_count |-> 0, risk_level |-> "Green"]

\* get_session's None
NoSession ==
    [id |-> 0, is_active |-> FALSE, end_time |-> -1,
     last_face_seen |-> 0, last_audio_activity |-> 0,
     final_score |-> 0, violation_count |-> 0, risk_level |-> "None"]

NewViolation(sid, type, t) == [session |-> sid, violation_type |-> type, timestamp |-> t]

\* ------------------------------------------------------ pure operations
\* the table with a penalty for the types it does not list
VIOLATION_PENALTIES_UnknownCosts(type) ==
    CASE type = "FACE_MISSING" -> 5
      [] type = "MULTIPLE_FACES" -> 10
      [] type = "FACE_ORIENTATION" -> 2
      [] type = "AUDIO_SILENCE" -> 5
      [] type = "TAB_SWITCH" -> 8
      [] OTHER -> 1

\* VIOLATION_PENALTIES.get(v.violation_type, 0)
VIOLATION_PENALTIES(type) ==
    CASE type = "FACE_MISSING" -> 5
      [] type = "MULTIPLE_FACES" -> 10
      [] type = "FACE_ORIENTATION" -> 2
      [] type = "AUDIO_SILENCE" -> 5
      [] type = "TAB_SWITCH" -> 8
      [] OTHER -> 0

\* session.violations.all(): the rows of one session, in insertion order
SessionViolations(log, sid) == SelectSeq(log, LAMBDA v : v.session = sid)

\* the loop of end_interview: score = 100, minus the penalty of every row
RECURSIVE RawScore(_)
RawScore(vs) ==
    IF vs = <<>> THEN INITIAL_SCORE
    ELSE RawScore(Tail(vs)) - VIOLATION_PENALTIES(Head(vs).violation_type)

Max(a, b) == IF a >= b THEN a ELSE b

\* the score without its clamp
FinalScore_Unclamped(vs) == RawScore(vs)

\* session.final_score = max(0, score)
FinalScore(vs) == Max(0, RawScore(vs))

\* the tiers with their lower ends included
RiskLevel_Inclusive(score) ==
    IF score >= GREEN_ABOVE THEN "Green"
    ELSE IF score >= YELLOW_ABOVE THEN "Yellow"
    ELSE "Red"

\* if score > 85: Green; elif score > 50: Yellow; else: Red
RiskLevel(score) ==
    IF score > GREEN_ABOVE THEN "Green"
    ELSE IF score > YELLOW_ABOVE THEN "Yellow"
    ELSE "Red"

\* the lookup that finds a row for every id
get_session_AnyId(row, sid) ==
    IF row.is_active THEN row ELSE NoSession

\* the lookup without its is_active filter
get_session_AnyState(row, sid) ==
    IF sid = row.id THEN row ELSE NoSession

\* get_session: the row with this id, if it is active
get_session(row, sid) ==
    IF sid = row.id /\ row.is_active THEN row ELSE NoSession

\* filter(session=, violation_type=).order_by('-timestamp').first(): the
\* timestamp of the latest row of that type, -1 for None
LastViolationTime(log, sid, type) ==
    LET ts == {log[i].timestamp : i \in {j \in 1 .. Len(log) :
                   log[j].session = sid /\ log[j].violation_type = type}}
    IN IF ts = {} THEN -1 ELSE CHOOSE t \in ts : \A u \in ts : u <= t

\* the threshold made inclusive
FaceAbsent_Inclusive(now, last_face_seen) ==
    now - last_face_seen >= FACE_ABSENCE_THRESHOLD_SECONDS * tps

\* time_since_last > FACE_ABSENCE_THRESHOLD_SECONDS
FaceAbsent(now, last_face_seen) ==
    now - last_face_seen > FACE_ABSENCE_THRESHOLD_SECONDS * tps

\* the debounce test with the window's end left out
FaceNotDebounced_Inclusive(now, last_t) ==
    last_t = -1 \/ now - last_t >= FACE_DEBOUNCE_SECONDS * tps

\* a debounce that never ends: a row only when there is none yet
FaceNotDebounced_FirstOnly(now, last_t) == last_t = -1

\* not last_v or (now - last_v.timestamp).total_seconds() > 2
FaceNotDebounced(now, last_t) ==
    last_t = -1 \/ now - last_t > FACE_DEBOUNCE_SECONDS * tps

\* time_since_active > SILENCE_THRESHOLD_SECONDS
AudioSilent(now, last_audio_activity) ==
    now - last_audio_activity > SILENCE_THRESHOLD_SECONDS * tps

\* the debounce test with the window's end left out
SilenceNotDebounced_Inclusive(now, last_t) ==
    last_t = -1 \/ now - last_t >= SILENCE_DEBOUNCE_SECONDS * tps

\* not last_v or (now - last_v.timestamp).total_seconds() > 5
SilenceNotDebounced(now, last_t) ==
    last_t = -1 \/ now - last_t > SILENCE_DEBOUNCE_SECONDS * tps

\* --------------------------------------------------------------- workers
\* The locals of a worker that serves no request.
\*   op        the view being served
\*   arg       the analysis status, is_silent or event_type of the request
\*   session   the object get_session returned
\*   now       the handler's local `now`
\*   n0        history: rows of the session in ViolationLog when the request arrived
Idle ==
    [pc |-> "idle", op |-> "none", sid |-> 0, arg |-> "none", session |-> NoSession,
     now |-> 0, n0 |-> 0]

\* No response: none yet, or a later request has arrived since.
\* A response is the view, the session id asked for and the HTTP status.
NoResponse == [op |-> "none", sid |-> 0, code |-> 0, message |-> ""]

InFlight(w) == req[w].pc # "idle"

NumInFlight == Cardinality({w \in Workers : InFlight(w)})

\* Requests are taken up only while every request in flight can still add a row
\* to a ViolationLog of at most cap rows.
Room(cap) == Len(violations) + NumInFlight < cap

CountOf(log, sid) == Len(SessionViolations(log, sid))

\* the 'message' of the JsonResponse a view returns with this status, "" when
\* the response has no such key
Message(op, code) ==
    IF op = "end_interview" /\ code = 404 THEN "Session not found"
    ELSE IF op = "process_frame" /\ code = 404 THEN "Invalid Session"
    ELSE ""

Response(op, sid, code) ==
    [op |-> op, sid |-> sid, code |-> code, message |-> Message(op, code)]

\* the message of an error response, "" when the response carries none
ErrorMessage(r) == r.message

\* return JsonResponse(...): the worker is free again
Respond(w, op, sid, code) ==
    /\ req' = [req EXCEPT ![w] = Idle]
    /\ response' = Response(op, sid, code)

\* except Exception as e: the 500 response of process_frame, its message str(e)
Raise(w, op, sid, e) ==
    /\ req' = [req EXCEPT ![w] = Idle]
    /\ response' = [op |-> op, sid |-> sid, code |-> 500, message |-> e]

\* a request arrives and the handler starts with locals r
Accept(w, r) ==
    /\ req' = [req EXCEPT ![w] = r]
    /\ response' = NoResponse

\* the handler goes on with locals r
Continue(w, r) ==
    /\ req' = [req EXCEPT ![w] = r]
    /\ UNCHANGED response

\* The first step of every view: session = get_session(session_id), and the
\* error response when there is none.
Arrive(w, op, sid, arg, next, notFound) ==
    LET s == get_session(session_row, sid) IN
    /\ ~InFlight(w)
    /\ IF s.id = 0
       THEN Respond(w, op, sid, notFound)
       ELSE Accept(w, [Idle EXCEPT !.op = op, !.sid = sid, !.arg = arg, !.session = s,
                                     !.n0 = CountOf(violations, sid), !.pc = next])

\* ---------------------------------------------------------------- clock
Tick(limit) ==
    /\ clock < limit
    /\ clock' = clock + 1
    /\ UNCHANGED <<tps, session_row, violations, req, response, finalizing, multiples, script>>

\* -------------------------------------------------------- process_frame
\* session = get_session(session_id); 404 when there is none
ProcessFrameGet(w, sid, status) ==
    /\ Arrive(w, "process_frame", sid, status, "frame_now", 404)
    /\ UNCHANGED <<tps, clock, session_row, violations, finalizing, multiples, script>>

\* every branch, the absent one too, setting last_face_seen = now
ProcessFrameNow_AbsentTouches(w) ==
    LET r == req[w] IN
    /\ r.pc = "frame_now"
    /\ Continue(w,
          IF r.arg = "no_face"
          THEN [r EXCEPT !.now = clock, !.session.last_face_seen = clock,
                         !.pc = IF FaceAbsent(clock, r.session.last_face_seen)
                                THEN "frame_query" ELSE "frame_save"]
          ELSE IF r.arg = "multiple_faces"
          THEN [r EXCEPT !.now = clock, !.session.last_face_seen = clock,
                         !.pc = "frame_create"]
          ELSE [r EXCEPT !.now = clock, !.session.last_face_seen = clock,
                         !.pc = "frame_save"])
    /\ multiples' = multiples + (IF r.arg = "multiple_faces" THEN 1 ELSE 0)
    /\ UNCHANGED <<tps, clock, session_row, violations, finalizing, script>>

\* now = timezone.now() and the branch on the analysis status
ProcessFrameNow(w) ==
    LET r == req[w] IN
    /\ r.pc = "frame_now"
    /\ Continue(w,
          IF r.arg = "no_face"
          THEN [r EXCEPT !.now = clock,
                         !.pc = IF FaceAbsent(clock, r.session.last_face_seen)
                                THEN "frame_query" ELSE "frame_save"]
          ELSE IF r.arg = "multiple_faces"
          THEN [r EXCEPT !.now = clock, !.session.last_face_seen = clock,
                         !.pc = "frame_create"]
          ELSE [r EXCEPT !.now = clock, !.session.last_face_seen = clock,
                         !.pc = "frame_save"])
    /\ multiples' = multiples + (IF r.arg = "multiple_faces" THEN 1 ELSE 0)
    /\ UNCHANGED <<tps, clock, session_row, violations, finalizing, script>>

\* the absent branch without its debounce test
ProcessFrameQuery_NoDebounce(w) ==
    LET r == req[w] IN
    /\ r.pc = "frame_query"
    /\ Continue(w, [r EXCEPT !.pc = "frame_create"])
    /\ UNCHANGED <<tps, clock, session_row, violations, finalizing, multiples, script>>

\* last_v = the latest FACE_MISSING row; the debounce test
ProcessFrameQuery(w) ==
    LET r == req[w] IN
    /\ r.pc = "frame_query"
    /\ Continue(w, [r EXCEPT !.pc =
          IF FaceNotDebounced(r.now, LastViolationTime(violations, r.session.id, "FACE_MISSING"))
          THEN "frame_create" ELSE "frame_save"])
    /\ UNCHANGED <<tps, clock, session_row, violations, finalizing, multiples, script>>

\* every frame violation logged as FACE_MISSING
FrameViolationType_OneType(status) == "FACE_MISSING"

\* the violation_type each branch of process_frame creates
FrameViolationType(status) ==
    IF status = "no_face" THEN "FACE_MISSING" ELSE "MULTIPLE_FACES"

\* ViolationLog.objects.create(...): timestamp is auto_now_add
ProcessFrameCreate(w) ==
    LET r == req[w] IN
    /\ r.pc = "frame_create"
    /\ violations' = Append(violations,
                            NewViolation(r.session.id, FrameViolationType(r.arg), clock))
    /\ Continue(w, [r EXCEPT !.pc = "frame_save"])
    /\ UNCHANGED <<tps, clock, session_row, finalizing, multiples, script>>

\* session.save() writes every field of the object the handler holds
ProcessFrameSave(w) ==
    LET r == req[w] IN
    /\ r.pc = "frame_save"
    /\ session_row' = r.session
    /\ Respond(w, r.op, r.sid, 200)
    /\ UNCHANGED <<tps, clock, violations, finalizing, multiples, script>>

\* str(e) of the TypeError that "',' in frame_data" raises for a body without
\* 'frame'
NoFrameError == "argument of type 'NoneType' is not iterable"
\* str(e) of the exceptions a write to the database raises
WriteErrors == {"database is locked"}

\* A body without 'frame': same lookup, then the exception of line 131.
ProcessFrameGetMalformed(w, sid) ==
    /\ Arrive(w, "process_frame", sid, "malformed", "frame_decode", 404)
    /\ UNCHANGED <<tps, clock, session_row, violations, finalizing, multiples, script>>

\* except Exception: the 500 response, with nothing written
ProcessFrameDecodeFails(w) ==
    LET r == req[w] IN
    /\ r.pc = "frame_decode"
    /\ Raise(w, r.op, r.sid, NoFrameError)
    /\ UNCHANGED <<tps, clock, session_row, violations, finalizing, multiples, script>>

\* the failure handled after a save of the session
ProcessFrameCreateFails_Saves(w) ==
    LET r == req[w] IN
    /\ r.pc = "frame_create"
    /\ session_row' = r.session
    /\ \E e \in WriteErrors : Raise(w, r.op, r.sid, e)
    /\ UNCHANGED <<tps, clock, violations, finalizing, multiples, script>>

\* ViolationLog.objects.create raises: except Exception answers 500, and
\* session.save() of line 174 is not reached
ProcessFrameCreateFails(w) ==
    LET r == req[w] IN
    /\ r.pc = "frame_create"
    /\ \E e \in WriteErrors : Raise(w, r.op, r.sid, e)
    /\ UNCHANGED <<tps, clock, session_row, violations, finalizing, multiples, script>>

\* session.save() raises: except Exception answers 500; the row that
\* ViolationLog.objects.create added before stays, the session is not stored
ProcessFrameSaveFails(w) ==
    LET r == req[w] IN
    /\ r.pc = "frame_save"
    /\ \E e \in WriteErrors : Raise(w, r.op, r.sid, e)
    /\ UNCHANGED <<tps, clock, session_row, violations, finalizing, multiples, script>>

\* ------------------------------------------------------- log_tab_switch
LogTabSwitchGet(w, sid, event_type) ==
    /\ Arrive(w, "log_tab_switch", sid, event_type, "tab_create", 400)
    /\ UNCHANGED <<tps, clock, session_row, violations, finalizing, multiples, script>>

\* tab events debounced the way absent frames are
LogTabSwitchCreate_Debounced(w) ==
    LET r == req[w]
        last == LastViolationTime(violations, r.session.id, "TAB_SWITCH")
    IN
    /\ r.pc = "tab_create"
    /\ violations' = (IF FaceNotDebounced(clock, last)
                      THEN Append(violations, NewViolation(r.session.id, "TAB_SWITCH", clock))
                      ELSE violations)
    /\ Respond(w, r.op, r.sid, 200)
    /\ UNCHANGED <<tps, clock, session_row, finalizing, multiples, script>>

\* ViolationLog.objects.create(violation_type='TAB_SWITCH'), whatever the
\* event_type, and the success response
LogTabSwitchCreate(w) ==
    LET r == req[w] IN
    /\ r.pc = "tab_create"
    /\ violations' = Append(violations, NewViolation(r.session.id, "TAB_SWITCH", clock))
    /\ Respond(w, r.op, r.sid, 200)
    /\ UNCHANGED <<tps, clock, session_row, finalizing, multiples, script>>

\* -------------------------------------------------- send_audio_activity
SendAudioGet(w, sid, is_silent) ==
    /\ Arrive(w, "send_audio_activity", sid, is_silent, "audio_now", 400)
    /\ UNCHANGED <<tps, clock, session_row, violations, finalizing, multiples, script>>

\* now = timezone.now() and the branch on is_silent
SendAudioNow(w) ==
    LET r == req[w] IN
    /\ r.pc = "audio_now"
    /\ IF r.arg = "active"
       THEN Continue(w, [r EXCEPT !.now = clock, !.session.last_audio_activity = clock,
                                  !.pc = "audio_save"])
       ELSE IF AudioSilent(clock, r.session.last_audio_activity)
       THEN Continue(w, [r EXCEPT !.now = clock, !.pc = "audio_query"])
       ELSE Respond(w, r.op, r.sid, 200)
    /\ UNCHANGED <<tps, clock, session_row, violations, finalizing, multiples, script>>

SendAudioSave(w) ==
    LET r == req[w] IN
    /\ r.pc = "audio_save"
    /\ session_row' = r.session
    /\ Respond(w, r.op, r.sid, 200)
    /\ UNCHANGED <<tps, clock, violations, finalizing, multiples, script>>

SendAudioQuery(w) ==
    LET r == req[w] IN
    /\ r.pc = "audio_query"
    /\ IF SilenceNotDebounced(r.now, LastViolationTime(violations, r.session.id, "AUDIO_SILENCE"))
       THEN Continue(w, [r EXCEPT !.pc = "audio_create"])
       ELSE Respond(w, r.op, r.sid, 200)
    /\ UNCHANGED <<tps, clock, session_row, violations, finalizing, multiples, script>>

SendAudioCreate(w) ==
    LET r == req[w] IN
    /\ r.pc = "audio_create"
    /\ violations' = Append(violations, NewViolation(r.session.id, "AUDIO_SILENCE", clock))
    /\ Respond(w, r.op, r.sid, 200)
    /\ UNCHANGED <<tps, clock, session_row, finalizing, multiples, script>>

\* -------------------------------------------------------- end_interview
\* session = get_session(session_id); 404 when there is none
EndInterviewGet(w, sid) ==
    /\ Arrive(w, "end_interview", sid, "none", "end_now", 404)
    /\ finalizing' = (finalizing \/ get_session(session_row, sid).id # 0)
    /\ UNCHANGED <<tps, clock, session_row, violations, multiples, script>>

\* session.is_active = False; session.end_time = timezone.now()
EndInterviewNow(w) ==
    LET r == req[w] IN
    /\ r.pc = "end_now"
    /\ Continue(w, [r EXCEPT !.session.is_active = FALSE, !.session.end_time = clock,
                             !.now = clock, !.pc = "end_score"])
    /\ UNCHANGED <<tps, clock, session_row, violations, finalizing, multiples, script>>

\* the fields end_interview sets from the rows it read
Scored(s, vs) ==
    [s EXCEPT !.final_score = FinalScore(vs),
              !.violation_count = Len(vs),
              !.risk_level = RiskLevel(RawScore(vs))]

\* violations = session.violations.all(), read once by the loop
EndInterviewScore(w) ==
    LET r == req[w] IN
    /\ r.pc = "end_score"
    /\ Continue(w, [r EXCEPT !.session =
                  Scored(r.session, SessionViolations(violations, r.session.id)),
                             !.pc = "end_save"])
    /\ UNCHANGED <<tps, clock, session_row, violations, finalizing, multiples, script>>

EndInterviewSave(w) ==
    LET r == req[w] IN
    /\ r.pc = "end_save"
    /\ session_row' = r.session
    /\ Respond(w, r.op, r.sid, 200)
    /\ UNCHANGED <<tps, clock, violations, finalizing, multiples, script>>

\* ------------------------------------------------------- specifications
Init ==
    /\ tps = TicksPerSecond
    /\ clock = 0
    /\ session_row = NewSession(TheSession, 0)
    /\ violations = <<>>
    /\ req = [w \in Workers |-> Idle]
    /\ response = NoResponse
    /\ finalizing = FALSE
    /\ multiples = 0
    /\ script = <<>>

ProcessFrame(w, cap) ==
    \/ /\ Room(cap)
       /\ \E sid \in RequestIds, status \in FrameStatuses : ProcessFrameGet(w, sid, status)
    \/ ProcessFrameNow(w)
    \/ ProcessFrameQuery(w)
    \/ ProcessFrameCreate(w)
    \/ ProcessFrameSave(w)

LogTabSwitch(w, cap) ==
    \/ /\ Room(cap)
       /\ \E sid \in RequestIds, e \in EventTypes : LogTabSwitchGet(w, sid, e)
    \/ LogTabSwitchCreate(w)

SendAudio(w, cap) ==
    \/ /\ Room(cap)
       /\ \E sid \in RequestIds, a \in {"active", "silent"} : SendAudioGet(w, sid, a)
    \/ SendAudioNow(w)
    \/ SendAudioSave(w)
    \/ SendAudioQuery(w)
    \/ SendAudioCreate(w)

\* send_audio_activity while the clock is short of SILENCE_THRESHOLD_SECONDS:
\* a silent sample is answered at once, so the handler never gets to its query.
SendAudioEarly(w, cap) ==
    \/ /\ Room(cap)
       /\ \E sid \in RequestIds, a \in {"active", "silent"} : SendAudioGet(w, sid, a)
    \/ SendAudioNow(w)
    \/ SendAudioSave(w)

EndInterview(w) ==
    \/ \E sid \in RequestIds : EndInterviewGet(w, sid)
    \/ EndInterviewNow(w)
    \/ EndInterviewScore(w)
    \/ EndInterviewSave(w)

\* Frames, audio samples, tab events and the end of the interview, served
\* concurrently by the workers in the first MaxTime ticks of the session.
Next ==
    \/ Tick(MaxTime)
    \/ \E w \in Workers : ProcessFrame(w, MaxLogConc)
    \/ \E w \in Workers : SendAudioEarly(w, MaxLogConc)
    \/ \E w \in Workers : LogTabSwitch(w, MaxLogConc)
    \/ \E w \in Workers : EndInterview(w)

Spec == Init /\ [][Next]_vars

\* One request at a time: a single worker serves every request to its end.
SeqNext ==
    \/ Tick(MaxTimeSeq)
    \/ ProcessFrame(1, MaxLog)
    \/ LogTabSwitch(1, MaxLog)
    \/ EndInterview(1)

SpecSeq == Init /\ [][SeqNext]_vars

\* One request at a time, audio samples only.
AudioNext ==
    \/ Tick(MaxTimeAudio)
    \/ SendAudio(1, MaxLog)
    \/ EndInterview(1)

SpecAudio == Init /\ [][AudioNext]_vars

\* One request at a time, every view: frames, audio samples, tab events and the
\* end of the interview, in the first MaxTime ticks of the session.
AllViewsNext ==
    \/ Tick(MaxTime)
    \/ ProcessFrame(1, MaxLogConc)
    \/ SendAudioEarly(1, MaxLogConc)
    \/ LogTabSwitch(1, MaxLogConc)
    \/ EndInterview(1)

SpecAllViews == Init /\ [][AllViewsNext]_vars

\* Frames and audio samples of the session, served concurrently by the workers
\* in the first MaxTime ticks.
MixedNext ==
    \/ Tick(MaxTime)
    \/ \E w \in Workers : ProcessFrame(w, MaxLogConc)
    \/ \E w \in Workers : SendAudioEarly(w, MaxLogConc)

SpecMixed == Init /\ [][MixedNext]_vars

\* the frames with several faces whose row was not written
FailedMultiples ==
    multiples - Cardinality({i \in 1 .. Len(violations) :
                                violations[i].violation_type = "MULTIPLE_FACES"})
                - Cardinality({w \in Workers : req[w].pc = "frame_create"
                                                  /\ req[w].arg = "multiple_faces"})

\* One request at a time, frames only, with the failures process_frame catches:
\* a frame that cannot be decoded, a row that cannot be written, and a session
\* that cannot be saved.
\* At most MaxFailures rows of frames with several faces fail to be written.
FailuresNext ==
    \/ Tick(MaxTime)
    \/ ProcessFrame(1, MaxLogConc)
    \/ /\ Room(MaxLogConc)
       /\ \E sid \in RequestIds : ProcessFrameGetMalformed(1, sid)
    \/ ProcessFrameDecodeFails(1)
    \/ /\ FailedMultiples < MaxFailures
       /\ ProcessFrameCreateFails(1)
    \/ ProcessFrameSaveFails(1)
    \/ EndInterview(1)

SpecFailures == Init /\ [][FailuresNext]_vars

\* ---------------------------------------------------------------- absence
\* The candidate has left: from the start every frame is without a face, the
\* frames keep coming one at a time, every handler runs to its response, and
\* time passes up to MaxTimeSeq.
AbsentFrame ==
    /\ Room(MaxLog)
    /\ ProcessFrameGet(1, TheSession, "no_face")

AbsenceNext ==
    \/ Tick(MaxTimeSeq)
    \/ AbsentFrame
    \/ ProcessFrameNow(1)
    \/ ProcessFrameQuery(1)
    \/ ProcessFrameCreate(1)
    \/ ProcessFrameSave(1)

SpecAbsence ==
    /\ Init
    /\ [][AbsenceNext]_vars
    /\ WF_vars(Tick(MaxTimeSeq))
    /\ WF_vars(AbsentFrame)
    /\ WF_vars(ProcessFrameNow(1))
    /\ WF_vars(ProcessFrameQuery(1))
    /\ WF_vars(ProcessFrameCreate(1))
    /\ WF_vars(ProcessFrameSave(1))

\* --------------------------------------------------------------- scenario
\* A session whose frames come one at a time at instants the client chooses:
\* two frames without a face, then one with several faces, then the end of the
\* interview. The clock runs in half seconds.
ScenarioStatuses == <<"no_face", "no_face", "multiple_faces">>

InitScenario ==
    /\ tps = 2 * TicksPerSecond
    /\ clock = 0
    /\ session_row = NewSession(TheSession, 0)
    /\ violations = <<>>
    /\ req = [w \in Workers |-> Idle]
    /\ response = NoResponse
    /\ finalizing = FALSE
    /\ multiples = 0
    /\ script = <<>>

\* time passes to the instant `to`, when the next frame of the scenario arrives
ScenarioFrame(to) ==
    /\ Len(script) < Len(ScenarioStatuses)
    /\ clock < to
    /\ clock' = to
    /\ script' = Append(script, to)
    /\ Arrive(1, "process_frame", TheSession, ScenarioStatuses[Len(script) + 1],
              "frame_now", 404)
    /\ UNCHANGED <<tps, session_row, violations, finalizing, multiples>>

\* the interview is ended once the frames of the scenario are answered
ScenarioEnd ==
    /\ Len(script) = Len(ScenarioStatuses)
    /\ EndInterviewGet(1, TheSession)

ScenarioNext ==
    \/ \E to \in 1 .. MaxTimeScenario : ScenarioFrame(to)
    \/ ProcessFrameNow(1)
    \/ ProcessFrameQuery(1)
    \/ ProcessFrameCreate(1)
    \/ ProcessFrameSave(1)
    \/ ScenarioEnd
    \/ EndInterviewNow(1)
    \/ EndInterviewScore(1)
    \/ EndInterviewSave(1)

SpecScenario == InitScenario /\ [][ScenarioNext]_vars

\* ---------------------------------------------------------------- scoring
\* The types a row of ViolationLog can carry. The scoring specification
\* builds its logs with the types in this order, but for the last row, which
\* is of any type: every log is an ordered one with one more row added.
ScoreTypes ==
    <<"FACE_ORIENTATION", "FACE_MISSING", "AUDIO_SILENCE", "TAB_SWITCH", "MULTIPLE_FACES",
      UnknownType>>

Rank(type) == CHOOSE i \in 1 .. Len(ScoreTypes) : ScoreTypes[i] = type

InListedOrder(log) ==
    \A i \in 1 .. Len(log) - 1 :
        Rank(log[i].violation_type) <= Rank(log[i + 1].violation_type)

\* A row of the session is in the table when the interview ends, whatever
\* wrote it: ViolationLog.objects.create of any violation_type.
AddRow(type) ==
    /\ ~InFlight(1)
    /\ session_row.is_active
    /\ Len(violations) < MaxScoreLog
    /\ InListedOrder(violations)
    /\ violations' = Append(violations, NewViolation(TheSession, type, clock))
    /\ UNCHANGED <<tps, clock, session_row, req, response, finalizing, multiples, script>>

\* end_interview over every log of at most MaxScoreLog rows.
ScoreNext ==
    \/ \E i \in 1 .. Len(ScoreTypes) : AddRow(ScoreTypes[i])
    \/ EndInterview(1)

SpecScore == Init /\ [][ScoreNext]_vars

\* ================================================================ claims
\* the rows of the session with this type, by their place in the table
RowsOf(log, type) ==
    {i \in 1 .. Len(log) : log[i].session = TheSession /\ log[i].violation_type = type}

FaceWindow == FACE_DEBOUNCE_SECONDS * tps
SilenceWindow == SILENCE_DEBOUNCE_SECONDS * tps

\* some row of this type has its timestamp in [now - window, now]
RecordedWithin(log, type, now, window) ==
    \E i \in RowsOf(log, type) : now - window <= log[i].timestamp /\ log[i].timestamp <= now

\* C1: with the observations processed one at a time, no two FACE_MISSING rows of
\* the session are within the debounce window of each other, and an absent
\* observation never gets to create a row while a FACE_MISSING row has its
\* timestamp in [now - window, now].
C1_FaceDebounce ==
    /\ \A i, j \in RowsOf(violations, "FACE_MISSING") :
          i < j => violations[j].timestamp - violations[i].timestamp > FaceWindow
    /\ \A w \in Workers :
          (req[w].pc = "frame_create" /\ req[w].arg = "no_face")
              => ~RecordedWithin(violations, "FACE_MISSING", req[w].now, FaceWindow)

\* an absent observation past the threshold, suppressed by a FACE_MISSING row in
\* the window, is about to save without having added a row
C1_Witness ==
    /\ req[1].pc = "frame_save"
    /\ req[1].arg = "no_face"
    /\ req[1].now - req[1].session.last_face_seen > FACE_ABSENCE_THRESHOLD_SECONDS * tps
    /\ RecordedWithin(violations, "FACE_MISSING", req[1].now, FaceWindow)
    /\ CountOf(violations, TheSession) = req[1].n0

\* C2: concurrent absent observations of one session yield one FACE_MISSING row,
\* not two: no stretch of time as long as the debounce window holds the
\* timestamps of two FACE_MISSING rows of the session.
C2_ConcurrentAbsentOnce ==
    \A t \in 0 .. clock :
        Cardinality({i \in RowsOf(violations, "FACE_MISSING") :
                        t <= violations[i].timestamp
                        /\ violations[i].timestamp <= t + FaceWindow}) <= 1

\* C3: once end_interview has looked the session up, no row is added to the
\* session's log.
C3_NoAppendAfterFinalize ==
    [][finalizing =>
          SessionViolations(violations', TheSession) = SessionViolations(violations, TheSession)]_vars

\* C4: once the session is inactive it stays inactive, and its final score and
\* risk level stay as finalization stored them.
C4_WriteOnceTerminal ==
    [][~session_row.is_active =>
          /\ ~session_row'.is_active
          /\ session_row'.final_score = session_row.final_score
          /\ session_row'.risk_level = session_row.risk_level]_vars

\* a response to end_interview for the session has just been sent
FinalizeAnswered == response'.op = "end_interview" /\ response'.sid = TheSession

\* C5 as stated: the second end_interview of a session fails with an error of its
\* own, AlreadyFinalized.
C5_AlreadyFinalized ==
    (~session_row.is_active /\ response.op = "end_interview"
        /\ response.sid = TheSession /\ response.code # 200)
        => ErrorMessage(response) = "AlreadyFinalized"

\* C5, amended: with the requests served one at a time, an end_interview for a
\* session that is already inactive is answered 404 "Session not found", the
\* answer an unknown id gets, and no step taken while the session is inactive
\* changes its row: final score, risk level, violation count and end time stay
\* as the first call stored them.
C5_SecondFinalizeNotFound ==
    [][~session_row.is_active =>
          /\ session_row' = session_row
          /\ (FinalizeAnswered /\ response' # response) =>
                /\ response'.code = 404
                /\ ErrorMessage(response') = "Session not found"
                /\ ErrorMessage(response') =
                      ErrorMessage(Response("end_interview", UnknownId, 404))]_vars

\* the second end_interview of the finalized session has been answered 404
C5_Witness ==
    /\ ~session_row.is_active
    /\ session_row.end_time >= 0
    /\ response = Response("end_interview", TheSession, 404)

\* the rows the session had when the request of worker w arrived
RowsAtArrival(w) == SubSeq(SessionViolations(violations, TheSession), 1, req[w].n0)

\* C6: one request at a time, no FACE_MISSING row before it: an absent observation
\* with now - last_face_seen at most the threshold adds no row, and one with
\* now - last_face_seen above the threshold adds exactly one row, a FACE_MISSING.
C6_ThresholdExclusive ==
    \A w \in Workers :
        (/\ req[w].pc = "frame_save"
         /\ req[w].arg = "no_face"
         /\ RowsOf(RowsAtArrival(w), "FACE_MISSING") = {})
        => LET rows == SessionViolations(violations, TheSession)
               elapsed == req[w].now - req[w].session.last_face_seen
           IN /\ req[w].session.last_face_seen = session_row.last_face_seen
              /\ IF elapsed > FACE_ABSENCE_THRESHOLD_SECONDS * tps
                 THEN /\ Len(rows) = req[w].n0 + 1
                      /\ rows[Len(rows)].violation_type = "FACE_MISSING"
                 ELSE Len(rows) = req[w].n0

\* an absent observation one tick past the threshold has added its FACE_MISSING
C6_Witness ==
    /\ req[1].pc = "frame_save"
    /\ req[1].arg = "no_face"
    /\ RowsOf(RowsAtArrival(1), "FACE_MISSING") = {}
    /\ req[1].now - req[1].session.last_face_seen = FACE_ABSENCE_THRESHOLD_SECONDS * tps + 1
    /\ Cardinality(RowsOf(violations, "FACE_MISSING")) = 1

\* workers between the analysis of a multiple_faces frame and its row
CreatingMultiple ==
    {w \in Workers : req[w].pc = "frame_create" /\ req[w].arg = "multiple_faces"}

\* C7: every multiple_faces observation of an active session adds exactly one
\* MULTIPLE_FACES row: the session has as many such rows as observations were
\* made, less the ones whose row is still to be created.
C7_EveryMultipleRecorded ==
    Cardinality(RowsOf(violations, "MULTIPLE_FACES")) + Cardinality(CreatingMultiple)
        = multiples

\* three multiple_faces observations in the same tick, three rows
C7_Witness ==
    /\ multiples = 3
    /\ Cardinality(RowsOf(violations, "MULTIPLE_FACES")) = 3
    /\ \A i \in RowsOf(violations, "MULTIPLE_FACES") :
          violations[i].timestamp = violations[1].timestamp

\* C8: the stored risk level is Green for a final score above 85, Yellow for
\* one above 50 and at most 85, Red for one of at most 50.
C8_RiskBoundaries ==
    ~session_row.is_active =>
        session_row.risk_level =
            (IF session_row.final_score > 85 THEN "Green"
             ELSE IF session_row.final_score > 50 THEN "Yellow"
             ELSE "Red")

\* a session finalized with score 85 is Yellow
C8_Witness ==
    /\ ~session_row.is_active
    /\ session_row.final_score = 85
    /\ session_row.risk_level = "Yellow"

\* the final score end_interview computes from this log
ScoreOf(log) == FinalScore(SessionViolations(log, TheSession))

\* C9: adding rows to the log never raises the final score, and the final score
\* of a log, and the one stored, is never below 0.
C9_ScoreMonotoneClamped ==
    [][LET before == ScoreOf(violations)
           after == ScoreOf(violations')
       IN /\ after <= before
          /\ after >= 0
          /\ session_row'.final_score >= 0]_vars

\* a session finalized with a log whose penalties exceed 100: score 0, Red
C9_Witness ==
    /\ ~session_row.is_active
    /\ RawScore(SessionViolations(violations, TheSession)) < 0
    /\ session_row.final_score = 0
    /\ session_row.risk_level = "Red"

\* the request of worker 1 is answered in this step
Answered == InFlight(1) /\ ~InFlight(1)'

\* C10: one request at a time. A sample that is not silent stores
\* last_audio_activity = now and adds no row. A silent sample leaves
\* last_audio_activity as it is and adds one AUDIO_SILENCE row exactly when
\* now - last_audio_activity is above the threshold and no AUDIO_SILENCE row has
\* its timestamp within the debounce window of now. No two AUDIO_SILENCE rows are
\* within the debounce window of each other.
C10_AudioPolicy ==
    [][LET r == req[1]
           now == IF r.pc = "audio_now" THEN clock ELSE r.now
           record == /\ now - session_row.last_audio_activity > SILENCE_THRESHOLD_SECONDS * tps
                     /\ ~RecordedWithin(violations, "AUDIO_SILENCE", now, SilenceWindow)
       IN /\ (r.op = "send_audio_activity" /\ r.arg = "active") =>
                /\ violations' = violations
                /\ Answered => session_row' =
                                  [session_row EXCEPT !.last_audio_activity = r.now]
                /\ ~Answered => session_row' = session_row
          /\ (r.op = "send_audio_activity" /\ r.arg = "silent") =>
                /\ session_row' = session_row
                /\ ~Answered => violations' = violations
                /\ Answered => violations' =
                      (IF record
                       THEN Append(violations, NewViolation(TheSession, "AUDIO_SILENCE", clock))
                       ELSE violations)
          /\ \A i, j \in RowsOf(violations', "AUDIO_SILENCE") :
                i < j => violations'[j].timestamp - violations'[i].timestamp > SilenceWindow]_vars

\* two AUDIO_SILENCE rows, the second once the window of the first had passed
C10_Witness ==
    /\ Cardinality(RowsOf(violations, "AUDIO_SILENCE")) = 2
    /\ session_row.last_audio_activity = 0

\* the event types that report the page losing focus
FocusLost == {"blur", "hidden"}

\* C11: every blur or hidden event for an active session is taken on and adds
\* exactly one TAB_SWITCH row, whatever the time since the last one: the step
\* that receives it starts the handler, and the only step the handler takes
\* appends the row and answers 200, so the session has one TAB_SWITCH row more
\* after each such event.
C11_EveryFocusLossRecorded ==
    [][LET r == req[1] IN
       /\ \A e \in FocusLost :
             (~InFlight(1) /\ session_row.is_active
                 /\ req'[1].op = "log_tab_switch" /\ req'[1].arg = e)
                 => (req'[1].pc = "tab_create" /\ req'[1].sid = TheSession)
       /\ (r.op = "log_tab_switch" /\ r.arg \in FocusLost) =>
             IF Answered
             THEN /\ response'.code = 200
                  /\ violations' =
                        Append(violations, NewViolation(TheSession, "TAB_SWITCH", clock))
                  /\ Cardinality(RowsOf(violations', "TAB_SWITCH"))
                        = Cardinality(RowsOf(violations, "TAB_SWITCH")) + 1
             ELSE /\ violations' = violations
                  /\ req' = req]_vars

\* a blur event is about to add the third TAB_SWITCH row of the same tick
C11_Witness ==
    /\ req[1].pc = "tab_create"
    /\ req[1].arg = "blur"
    /\ Cardinality(RowsOf(violations, "TAB_SWITCH")) = 2
    /\ \A i \in RowsOf(violations, "TAB_SWITCH") : violations[i].timestamp = clock

\* the status of the error response each view sends when get_session finds no
\* active session
NotFoundCode(op) == IF op \in {"process_frame", "end_interview"} THEN 404 ELSE 400

\* C12: one request at a time. A request of any of the four views that names an
\* unknown id, or the session once it is inactive, is not taken on: it is
\* answered with the view's error status, and the step changes neither the
\* session's row nor the log. Every request that is answered without having been
\* taken on is such a request, and nothing changes in the row and the log of an
\* inactive session.
C12_SessionNotFound ==
    [][/\ (~InFlight(1) /\ InFlight(1)') =>
             (req'[1].sid = TheSession /\ session_row.is_active)
       /\ (~InFlight(1) /\ ~InFlight(1)' /\ response' # response) =>
             /\ response'.sid = UnknownId \/ ~session_row.is_active
             /\ response'.op \in
                   {"process_frame", "send_audio_activity", "log_tab_switch", "end_interview"}
             /\ response'.code = NotFoundCode(response'.op)
             /\ session_row' = session_row
             /\ violations' = violations
       /\ ~session_row.is_active =>
             (session_row' = session_row /\ violations' = violations /\ ~InFlight(1)')]_vars

\* an audio sample for the finalized session has been answered with an error,
\* the row and the log being those the finalization left
C12_Witness ==
    /\ ~session_row.is_active
    /\ response = Response("send_audio_activity", TheSession, 400)
    /\ session_row.violation_count = Len(violations)
    /\ Len(violations) > 0

\* the instants of the scenario: 3 s, 3.5 s and 10 s after the start
ScenarioInstants == <<3 * tps, (7 * tps) \div 2, 10 * tps>>

\* the first k frames of the scenario have been sent at its instants and
\* answered, and the interview has not been ended
ScenarioAfter(k) ==
    /\ script = SubSeq(ScenarioInstants, 1, k)
    /\ ~InFlight(1)
    /\ session_row.is_active

\* C13: threshold 2 s, debounce 2 s, session started at T0. The frame without a
\* face at T0+3s adds a FACE_MISSING row; the one at T0+3.5s adds none; the frame
\* with several faces at T0+10s adds a MULTIPLE_FACES row and stores
\* last_face_seen = T0+10s; the end of the interview then stores the count of
\* exactly those two rows, a final score of 100 - 5 - 10 = 85 and the risk level
\* Yellow.
C13_Scenario ==
    LET t == ScenarioInstants
        missing == NewViolation(TheSession, "FACE_MISSING", t[1])
        several == NewViolation(TheSession, "MULTIPLE_FACES", t[3])
    IN /\ ScenarioAfter(1) => (violations = <<missing>> /\ session_row.last_face_seen = 0)
       /\ ScenarioAfter(2) => (violations = <<missing>> /\ session_row.last_face_seen = 0)
       /\ ScenarioAfter(3) =>
             (violations = <<missing, several>> /\ session_row.last_face_seen = t[3])
       /\ (script = t /\ ~session_row.is_active) =>
             /\ violations = <<missing, several>>
             /\ session_row.last_face_seen = t[3]
             /\ session_row.violation_count = 2
             /\ session_row.final_score = 85
             /\ session_row.risk_level = "Yellow"

\* the scenario has run to its end
C13_Witness ==
    /\ script = ScenarioInstants
    /\ script = <<6, 7, 20>>
    /\ ~session_row.is_active
    /\ response = Response("end_interview", TheSession, 200)
    /\ Len(violations) = 2

\* the number of rows of the session with this type
Count(log, type) == Cardinality(RowsOf(log, type))

\* the penalties of a log by its number of rows of each kind: 5, 10, 2, 5 and 8,
\* nothing for a row of any other kind
PenaltySum(log) ==
    5 * Count(log, "FACE_MISSING") + 10 * Count(log, "MULTIPLE_FACES")
        + 2 * Count(log, "FACE_ORIENTATION") + 5 * Count(log, "AUDIO_SILENCE")
        + 8 * Count(log, "TAB_SWITCH")

\* C14: the final score end_interview stores is max(0, 100 - the sum of the
\* penalties of the rows of the log), with penalties 5, 10, 2, 5, 8 by kind and 0
\* for any other kind. It is a function of the number of rows of each kind, not of
\* their order, and the end of an interview whose log has a row of unknown kind
\* is answered 200 like any other.
C14_ScoreFormula ==
    LET vs == SessionViolations(violations, TheSession) IN
    /\ FinalScore(vs) = Max(0, 100 - PenaltySum(violations))
    /\ vs # <<>> => FinalScore(Append(Tail(vs), Head(vs))) = FinalScore(vs)
    /\ ~session_row.is_active =>
          /\ session_row.final_score = Max(0, 100 - PenaltySum(violations))
          /\ response = Response("end_interview", TheSession, 200)
             \/ response.code = 404

\* an interview ended with a log that is not in the listed order and has a row of
\* unknown kind, which costs nothing
C14_Witness ==
    /\ ~session_row.is_active
    /\ response = Response("end_interview", TheSession, 200)
    /\ ~InListedOrder(violations)
    /\ Count(violations, UnknownType) = 2
    /\ Count(violations, "TAB_SWITCH") = 1
    /\ Len(violations) = 3
    /\ session_row.final_score = 92

\* C15: one request at a time. A frame with one face stores last_face_seen = now
\* and adds no row; a frame with several faces stores last_face_seen = now; a
\* frame without a face leaves the stored last_face_seen as it was, whether it
\* adds a row or not, so that the next such frame measures the absence from the
\* same instant.
C15_LastFaceSeenRule ==
    [][LET r == req[1] IN
       r.op = "process_frame" =>
          IF ~Answered
          THEN session_row' = session_row
          ELSE /\ r.arg = "ok" =>
                     /\ session_row' = [session_row EXCEPT !.last_face_seen = r.now]
                     /\ CountOf(violations', TheSession) = r.n0
               /\ r.arg = "multiple_faces" =>
                     /\ session_row' = [session_row EXCEPT !.last_face_seen = r.now]
                     /\ CountOf(violations', TheSession) = r.n0 + 1
               /\ r.arg = "no_face" =>
                     /\ session_row' = session_row
                     /\ CountOf(violations', TheSession) \in {r.n0, r.n0 + 1}]_vars

\* a second frame without a face, after one that added a row, measures its
\* absence from the last_face_seen the first one left in place
C15_Witness ==
    /\ req[1].pc = "frame_save"
    /\ req[1].arg = "no_face"
    /\ Cardinality(RowsOf(violations, "FACE_MISSING")) = 2
    /\ session_row.last_face_seen = 0
    /\ req[1].now - session_row.last_face_seen = 2 * FACE_ABSENCE_THRESHOLD_SECONDS * tps + 2

\* C16: one request at a time. When the row of a frame without a face or with
\* several faces cannot be written, the request is answered 500, no row is
\* added, and the stored last_face_seen is the one the request found, not its
\* now. A body without a frame is answered 500 with the message of its
\* exception, and from its arrival to its answer the session's row (timestamps,
\* is_active) and the log stay as they were. No request answered 500 has
\* changed the session's row.
C16_FailuresKeepState ==
    [][LET r == req[1] IN
       /\ (Answered /\ response'.code = 500) =>
             /\ r.pc \in {"frame_create", "frame_decode", "frame_save"}
             /\ session_row' = session_row
             /\ session_row'.last_face_seen = get_session(session_row, r.sid).last_face_seen
             /\ violations' = violations
       /\ (Answered /\ r.pc = "frame_create" /\ response'.code = 500) =>
             /\ CountOf(violations', TheSession) = r.n0
             /\ r.arg = "multiple_faces" => r.session.last_face_seen = r.now
       /\ r.arg = "malformed" =>
             /\ session_row' = session_row
             /\ violations' = violations
             /\ Answered => (response'.code = 500 /\ ErrorMessage(response') = NoFrameError)]_vars

\* a frame with several faces was analysed after the absence had been logged at
\* MaxTime, its row could not be written, and last_face_seen is still the start
C16_Witness ==
    /\ response.op = "process_frame"
    /\ response.code = 500
    /\ response.message \in WriteErrors
    /\ multiples = 1
    /\ violations = <<NewViolation(TheSession, "FACE_MISSING", MaxTime)>>
    /\ session_row.last_face_seen = 0
    /\ session_row.is_active

\* the event types that report the page gaining focus
FocusGained == {"focus", "visible"}

\* C17 as stated: a focus or visible event for an active session adds no row;
\* only blur and hidden events add a TAB_SWITCH row.
C17_FocusGainNotRecorded ==
    [][(req[1].op = "log_tab_switch" /\ req[1].arg \in FocusGained) =>
          violations' = violations]_vars

\* C18 as stated: with frames and audio samples of one session served
\* concurrently, the stored last_face_seen and last_audio_activity never move
\* backwards.
C18_TimestampsMonotone ==
    [][/\ session_row'.last_face_seen >= session_row.last_face_seen
       /\ session_row'.last_audio_activity >= session_row.last_audio_activity]_vars

\* C19 as stated: whenever the session is inactive, its stored result is that of
\* its log: violation_count is the number of its rows, final_score is
\* max(0, 100 - the sum of their penalties), and risk_level is the tier of that
\* sum.
C19_ResultAgreesWithLog ==
    ~session_row.is_active =>
        LET vs == SessionViolations(violations, TheSession) IN
        /\ session_row.violation_count = Len(vs)
        /\ session_row.final_score = FinalScore(vs)
        /\ session_row.risk_level = RiskLevel(RawScore(vs))

\* some FACE_MISSING row of the session has its timestamp after t
MissingAfter(t) == \E i \in RowsOf(violations, "FACE_MISSING") : violations[i].timestamp > t

\* the latest FACE_MISSING row has timestamp t, and its debounce window ends
\* before the clock stops
LastMissingAt(t) ==
    /\ LastViolationTime(violations, TheSession, "FACE_MISSING") = t
    /\ t + FaceWindow < MaxTimeSeq

\* C20: while the frames of an active session keep coming without a face and
\* time passes, a FACE_MISSING row is eventually added, and every FACE_MISSING
\* row whose debounce window ends before the clock stops is eventually followed
\* by a later one.
C20_AbsenceEventuallyRecorded ==
    /\ <>MissingAfter(-1)
    /\ \A t \in 0 .. MaxTimeSeq : LastMissingAt(t) ~> MissingAfter(t)

\* two FACE_MISSING rows of one absence, the second after the window of the first
C20_Witness ==
    /\ Cardinality(RowsOf(violations, "FACE_MISSING")) = 2
    /\ session_row.last_face_seen = 0
    /\ multiples = 0
    /\ violations[2].timestamp - violations[1].timestamp > FaceWindow

====
